---- MODULE Spec2Model ----
(***************************************************************************)
(* Model of the recursive cascade simulator, scripts/war_simulator.py:     *)
(* WarSimulator.get_city_state and WarSimulator.run_simulation.            *)
(*                                                                         *)
(* Number representation (Python floats are modelled as exact rationals):  *)
(*   distances and deltas stored in the state : half metres   (x 2)        *)
(*   scenario modifiers                       : halves        (x 2)        *)
(*   encirclement scores and probabilities    : 1/10000       (x 10000)    *)
(*   momentum_7d / momentum_30d               : reduced fractions <<n,d>>  *)
(*   snapshot columns after round(): dist_to_front in metres, delta_real   *)
(*   in tenths of a metre, encirclement and prob_capture in thousandths.   *)
(***************************************************************************)
EXTENDS Integers, Sequences, FiniteSets, TLC

VARIABLES df, model_A, model_B, model_C, stubs, calls, cur, pc,
          current_state, history, loc, trace, results

vars == <<df, model_A, model_B, model_C, stubs, calls, cur, pc,
          current_state, history, loc, trace, results>>

\* ------------------------------------------------------------------ bounds
\* Largest horizon (the days argument) a call is made with.
MaxDays == 3

\* ------------------------------------------------------- number helpers
DistScale == 2
ScoreScale == 10000

Abs(n) == IF n < 0 THEN 0 - n ELSE n

Max(a, b) == IF a >= b THEN a ELSE b

\* Operands are bound as elements of one-element sets below, so that each
\* is evaluated once however often it is used.
RECURSIVE GCD(_, _)
GCD(a, b) ==
    IF b = 0 THEN a ELSE CHOOSE g \in {GCD(b, r) : r \in {a % b}} : TRUE

\* A rational n/d (d > 0) in lowest terms.
Frac(n, d) ==
    CHOOSE f \in {<<x \div g, y \div g>> :
                    <<x, y, g>> \in {<<n, d, GCD(Abs(n), d)>>}} : TRUE

FracAdd(a, b) ==
    CHOOSE f \in {Frac(x[1] * y[2] + y[1] * x[2], x[2] * y[2]) :
                    x \in {a}, y \in {b}} : TRUE

\* a * p / q
FracMul(a, p, q) == CHOOSE f \in {Frac(x[1] * p, x[2] * q) : x \in {a}} : TRUE

\* Python/numpy round(): n counted in 1/unit, result counted in whole units,
\* ties go to the even neighbour.
RoundHalfEven(n, unit) ==
    LET q == n \div unit
        r == n % unit
    IN  IF 2 * r < unit THEN q
        ELSE IF 2 * r > unit THEN q + 1
        ELSE IF q % 2 = 0 THEN q ELSE q + 1

\* Variant of Clip01 with the upper bound forgotten.
Clip01_NoUpper(x) == IF x < 0 THEN 0 ELSE x

\* np.clip(x, 0, 1) on a score counted in 1/ScoreScale.
Clip01(x) == IF x < 0 THEN 0 ELSE IF x > ScoreScale THEN ScoreScale ELSE x

\* ------------------------------------------------------------ the data
\* Rows of dataset_to_train.csv (self.df) as far as the simulator reads
\* them.  dist_to_front_m is a rounded geometric distance (>= 0) and
\* is_captured is 0 or 1 (process_data.py).
Row(name, date, captured, dist, enc, pct) ==
    [name |-> name, date |-> date, is_captured |-> captured,
     dist_to_front_m |-> dist * DistScale, encirclement_score |-> enc,
     pct_occupied |-> pct, fortification_level |-> 3, ru_armor_lag1 |-> 7,
     delta_dist_daily |-> 1 * DistScale,
     momentum_7d |-> Frac(1, 1), momentum_30d |-> Frac(2, 1)]

Dataset ==
    << Row("Bakhmut",    1, 0, 2, 6000, 2000),
       Row("Kramatorsk", 1, 0, 9, 1000, 0),
       Row("Bakhmut",    2, 1, 0, 10000, 9600),
       Row("Kramatorsk", 2, 0, 4, 2000, 0) >>

\* row without the column c (a csv written without that column).
DropColumn(row, c) == [k \in DOMAIN row \ {c} |-> row[k]]

WithoutColumn(d, c) == [i \in 1..Len(d) |-> DropColumn(d[i], c)]

\* The csv files the simulator is started on: the full table, one without a
\* column only the encirclement booster asks for, one without a column the
\* front-dynamics booster asks for.
DataFrames == {Dataset, WithoutColumn(Dataset, "ru_armor_lag1"),
               WithoutColumn(Dataset, "pct_occupied")}

CityNames == {"Kramatorsk", "Bakhmut", "Atlantis"}

Scenarios == {"conservative", "inertial", "aggressive", "blitz"}

\* Feature lists of the three boosters (cascade1/2/3.FEATURES), restricted
\* to the columns the model carries.
feats_A == <<"dist_to_front_m", "encirclement_score", "pct_occupied",
             "fortification_level", "delta_dist_daily", "momentum_7d",
             "momentum_30d">>

feats_B == <<"dist_to_front_m", "fortification_level", "ru_armor_lag1",
             "delta_dist_daily">>

feats_C == <<"encirclement_score", "dist_to_front_m", "pct_occupied",
             "fortification_level", "momentum_30d">>

\* Outputs the predictors can produce.  Deltas in metres (signed), scores
\* and probabilities in 1/ScoreScale, deliberately including values outside
\* [0, 1] and values on both sides of the 0.5 threshold.
DeltaOutputs == {-2, 0, 3}

EncOutputs == {-3000, 4565, 17000}

ProbOutputs == {-2000, 5000, 5004, 17000}

\* Output sets used when two scenario runs are compared: more deltas, fewer
\* scores and probabilities.
PairDeltaOutputs == {-2, 0, 1, 3}

PairEncOutputs == {4565}

PairProbOutputs == {5000, 17000}

NoState == [name |-> "none"]

NoLoc == [modifier |-> 0, days |-> 0, day |-> 0, new_dist |-> 0,
          adjusted_delta |-> 0, pred_encirclement |-> 0]

\* -------------------------------------------------------- pure helpers
\* Variant of modifiers whose fallback for an unknown label is 1.5.
modifiers_DefaultAggressive(scenario) ==
    IF scenario = "conservative" THEN 1
    ELSE IF scenario = "inertial" THEN 2
    ELSE 3

\* Variant of modifiers with the conservative and aggressive entries swapped.
modifiers_Swapped(scenario) ==
    IF scenario = "conservative" THEN 3
    ELSE IF scenario = "inertial" THEN 2
    ELSE IF scenario = "aggressive" THEN 1
    ELSE 2

\* modifiers.get(scenario, 1.0), in halves.
modifiers(scenario) ==
    IF scenario = "conservative" THEN 1
    ELSE IF scenario = "inertial" THEN 2
    ELSE IF scenario = "aggressive" THEN 3
    ELSE 2

\* self.df[self.df['name'] == city_name]
city_data(d, city_name) == {i \in 1..Len(d) : d[i].name = city_name}

\* city_data.sort_values('date').iloc[-1].copy()
get_city_state(d, city_name) ==
    LET rows == city_data(d, city_name)
        last == CHOOSE i \in rows : \A j \in rows : d[j].date <= d[i].date
    IN  d[last]

\* Variant of StoredRows for a current_state that aliases the stored row:
\* the latest row of the city takes the written values.
StoredRows_Aliased(d, city_name, state) ==
    LET rows == city_data(d, city_name)
        last == CHOOSE i \in rows : \A j \in rows : d[j].date <= d[i].date
    IN  [d EXCEPT ![last] = state]

\* self.df after a write to current_state: get_city_state returned a
\* .copy() of the row (line 39), so the stored rows stay as they are.
StoredRows(d, city_name, state) == d

\* The labels of feats that current_state[feats] does not find; pandas
\* raises KeyError("[...] not in index") listing them when there are any.
Missing(state, feats) == {feats[i] : i \in 1..Len(feats)} \ DOMAIN state

\* current_state[feats].to_frame().T.astype(float)
Project(state, feats) == [i \in 1..Len(feats) |-> state[feats[i]]]

\* Variant of Snapshot that clips the probability to [0, 1] before rounding.
Snapshot_Clipped(day, new_dist, adj_delta, pred_enc, prob, is_captured) ==
    [day |-> day,
     dist_to_front |-> RoundHalfEven(new_dist, DistScale),
     delta_real |-> adj_delta * 5,
     encirclement |-> RoundHalfEven(pred_enc, 10),
     prob_capture |-> RoundHalfEven(Clip01(prob), 10),
     status |-> IF is_captured = 1 THEN "OCCUPIED" ELSE "FREE"]

\* Variant of Snapshot that reports the encirclement score as probability.
Snapshot_WrongColumn(day, new_dist, adj_delta, pred_enc, prob, is_captured) ==
    [day |-> day,
     dist_to_front |-> RoundHalfEven(new_dist, DistScale),
     delta_real |-> adj_delta * 5,
     encirclement |-> RoundHalfEven(pred_enc, 10),
     prob_capture |-> RoundHalfEven(pred_enc, 10),
     status |-> IF is_captured = 1 THEN "OCCUPIED" ELSE "FREE"]

\* Variant of Snapshot that numbers the days from 0.
Snapshot_ZeroBased(day, new_dist, adj_delta, pred_enc, prob, is_captured) ==
    [day |-> day - 1,
     dist_to_front |-> RoundHalfEven(new_dist, DistScale),
     delta_real |-> adj_delta * 5,
     encirclement |-> RoundHalfEven(pred_enc, 10),
     prob_capture |-> RoundHalfEven(prob, 10),
     status |-> IF is_captured = 1 THEN "OCCUPIED" ELSE "FREE"]

\* The rows appended to history (lines 100-107).
Snapshot(day, new_dist, adj_delta, pred_enc, prob, is_captured) ==
    [day |-> day,
     dist_to_front |-> RoundHalfEven(new_dist, DistScale),
     delta_real |-> adj_delta * 5,
     encirclement |-> RoundHalfEven(pred_enc, 10),
     prob_capture |-> RoundHalfEven(prob, 10),
     status |-> IF is_captured = 1 THEN "OCCUPIED" ELSE "FREE"]

\* ------------------------------------------------------------ initial
TypeStubs == [A |-> DeltaOutputs, B |-> EncOutputs, C |-> ProbOutputs]

InitCommon ==
    /\ df \in DataFrames
    /\ model_A = <<>>
    /\ model_B = <<>>
    /\ model_C = <<>>
    /\ cur = 1
    /\ pc = "call"
    /\ current_state = NoState
    /\ history = <<>>
    /\ loc = NoLoc
    /\ trace = <<>>
    /\ results = <<>>

\* One call of run_simulation with any arguments.
Init ==
    /\ InitCommon
    /\ stubs = TypeStubs
    /\ \E c \in CityNames, n \in 0..MaxDays, s \in Scenarios :
          calls = << [city_name |-> c, days |-> n, scenario |-> s] >>

\* The conservative and the aggressive run of one city, one after the other
\* on the same simulator object (as the usage example does).
InitPair ==
    /\ InitCommon
    /\ stubs = [A |-> PairDeltaOutputs, B |-> PairEncOutputs,
                C |-> PairProbOutputs]
    /\ \E c \in CityNames, n \in 0..MaxDays :
          calls = << [city_name |-> c, days |-> n, scenario |-> "conservative"],
                    [city_name |-> c, days |-> n, scenario |-> "aggressive"] >>

\* The inertial run and a run with a label that is not in the table, for
\* the same city and horizon on the same simulator object, in either order.
InitFallback ==
    /\ InitCommon
    /\ stubs = [A |-> PairDeltaOutputs, B |-> EncOutputs,
                C |-> PairProbOutputs]
    /\ \E c \in CityNames, n \in 0..MaxDays :
         \E s \in {<<"inertial", "blitz">>, <<"blitz", "inertial">>} :
          calls = << [city_name |-> c, days |-> n, scenario |-> s[1]],
                    [city_name |-> c, days |-> n, scenario |-> s[2]] >>

\* ------------------------------------------------------------ predictors
\* The loaded models are fixed functions of their input row; the model
\* learns a function lazily: the first evaluation at an input picks any
\* output of the stub's range, later evaluations at that input repeat it.
Known(model, x) == x \in DOMAIN model

Learn(model, x, out) == IF Known(model, x) THEN model ELSE model @@ (x :> out)

Outputs(model, x, range) == IF Known(model, x) THEN {model[x]} ELSE range

\* ------------------------------------------------------------- actions
args == calls[cur]

\* The call is over: what the caller gets (a frame, None or an exception and
\* the labels its message names) and the locals at that moment.
FinishWith(kind, named) ==
    /\ results' = Append(results, [kind |-> kind, history |-> history',
                                   trace |-> trace',
                                   final |-> current_state',
                                   named |-> named])
    /\ cur' = cur + 1
    /\ pc' = IF cur < Len(calls) THEN "call" ELSE "idle"

Finish(kind) == FinishWith(kind, {})

\* Variant of CallCityNotFound that returns an empty frame instead of
\* raising.
CallCityNotFound_EmptyFrame ==
    /\ pc = "call"
    /\ city_data(df, args.city_name) = {}
    /\ history' = <<>>
    /\ trace' = <<>>
    /\ current_state' = NoState
    /\ loc' = [NoLoc EXCEPT !.modifier = modifiers(args.scenario),
                            !.days = args.days]
    /\ Finish("DataFrame")
    /\ UNCHANGED <<df, model_A, model_B, model_C, stubs, calls>>

\* Lines 46-57 with get_city_state raising: the city has no rows.
CallCityNotFound ==
    /\ pc = "call"
    /\ city_data(df, args.city_name) = {}
    /\ history' = <<>>
    /\ trace' = <<>>
    /\ current_state' = NoState
    /\ loc' = [NoLoc EXCEPT !.modifier = modifiers(args.scenario),
                            !.days = args.days]
    /\ Finish("ValueError")
    /\ UNCHANGED <<df, model_A, model_B, model_C, stubs, calls>>

\* Variant of CallAlreadyOccupied with the check of lines 55-57 left out: the
\* loop is entered.
CallAlreadyOccupied_NoCheck ==
    /\ pc = "call"
    /\ city_data(df, args.city_name) # {}
    /\ get_city_state(df, args.city_name).is_captured = 1
    /\ args.days >= 1
    /\ history' = <<>>
    /\ trace' = <<>>
    /\ current_state' = get_city_state(df, args.city_name)
    /\ loc' = [NoLoc EXCEPT !.modifier = modifiers(args.scenario),
                            !.days = args.days, !.day = 1]
    /\ pc' = "stage_A"
    /\ UNCHANGED <<df, model_A, model_B, model_C, stubs, calls, cur, results>>

\* Lines 46-57: the anchor row says is_captured == 1, return None.
CallAlreadyOccupied ==
    /\ pc = "call"
    /\ city_data(df, args.city_name) # {}
    /\ get_city_state(df, args.city_name).is_captured = 1
    /\ history' = <<>>
    /\ trace' = <<>>
    /\ current_state' = get_city_state(df, args.city_name)
    /\ loc' = [NoLoc EXCEPT !.modifier = modifiers(args.scenario),
                            !.days = args.days]
    /\ Finish("None")
    /\ UNCHANGED <<df, model_A, model_B, model_C, stubs, calls>>

\* Lines 46-60 and 114: the loop range is empty, return the empty frame.
CallNoDays ==
    /\ pc = "call"
    /\ city_data(df, args.city_name) # {}
    /\ get_city_state(df, args.city_name).is_captured # 1
    /\ args.days < 1
    /\ history' = <<>>
    /\ trace' = <<>>
    /\ current_state' = get_city_state(df, args.city_name)
    /\ loc' = [NoLoc EXCEPT !.modifier = modifiers(args.scenario),
                            !.days = args.days]
    /\ Finish("DataFrame")
    /\ UNCHANGED <<df, model_A, model_B, model_C, stubs, calls>>

\* Lines 46-60: enter the loop with day = 1.
CallEnterLoop ==
    /\ pc = "call"
    /\ city_data(df, args.city_name) # {}
    /\ get_city_state(df, args.city_name).is_captured # 1
    /\ args.days >= 1
    /\ history' = <<>>
    /\ trace' = <<>>
    /\ current_state' = get_city_state(df, args.city_name)
    /\ loc' = [NoLoc EXCEPT !.modifier = modifiers(args.scenario),
                            !.days = args.days, !.day = 1]
    /\ pc' = "stage_A"
    /\ UNCHANGED <<df, model_A, model_B, model_C, stubs, calls, cur, results>>

\* Variants of NewDist: without max(0, .), and with the sign of the delta
\* reversed.
NewDist_NoClamp(dist, adjusted_delta) == dist - adjusted_delta

NewDist_Plus(dist, adjusted_delta) == Max(0, dist + adjusted_delta)

\* new_dist = max(0, current_state['dist_to_front_m'] - adjusted_delta)
NewDist(dist, adjusted_delta) == Max(0, dist - adjusted_delta)

\* Variant of StageAWrites without the write of line 79.
StageAWrites_NoDist(state, adjusted_delta, new_dist) ==
    [state EXCEPT
       !.delta_dist_daily = adjusted_delta,
       !.momentum_7d = FracAdd(FracMul(@, 9, 10),
                               Frac(adjusted_delta, 10 * DistScale)),
       !.momentum_30d = FracAdd(FracMul(@, 19, 20),
                                Frac(adjusted_delta, 20 * DistScale))]

\* Variant of StageAWrites that does not carry momentum_7d forward.
StageAWrites_NoMomentum7(state, adjusted_delta, new_dist) ==
    [state EXCEPT
       !.delta_dist_daily = adjusted_delta,
       !.momentum_30d = FracAdd(FracMul(@, 19, 20),
                                Frac(adjusted_delta, 20 * DistScale)),
       !.dist_to_front_m = new_dist]

\* Variant of StageAWrites that feeds the distance really covered (after
\* the clamp) into delta_dist_daily and the momentum fields.
StageAWrites_Covered(state, adjusted_delta, new_dist) ==
    LET covered == state.dist_to_front_m - new_dist
    IN  [state EXCEPT
           !.delta_dist_daily = covered,
           !.momentum_7d = FracAdd(FracMul(@, 9, 10),
                                   Frac(covered, 10 * DistScale)),
           !.momentum_30d = FracAdd(FracMul(@, 19, 20),
                                    Frac(covered, 20 * DistScale)),
           !.dist_to_front_m = new_dist]

\* Lines 74-79: the four writes of the front-dynamics stage,
\* delta_dist_daily, momentum_7d * 0.9 + delta * 0.1,
\* momentum_30d * 0.95 + delta * 0.05 and dist_to_front_m.
StageAWrites(state, adjusted_delta, new_dist) ==
    [state EXCEPT
       !.delta_dist_daily = adjusted_delta,
       !.momentum_7d = FracAdd(FracMul(@, 9, 10),
                               Frac(adjusted_delta, 10 * DistScale)),
       !.momentum_30d = FracAdd(FracMul(@, 19, 20),
                                Frac(adjusted_delta, 20 * DistScale)),
       !.dist_to_front_m = new_dist]

\* Lines 64-79: front dynamics, distance and momentum writes.
StageA ==
    /\ pc = "stage_A"
    /\ Missing(current_state, feats_A) = {}
    /\ LET input_A == Project(current_state, feats_A)
       IN  \E pred_delta \in Outputs(model_A, input_A, stubs.A) :
             LET adjusted_delta == pred_delta * loc.modifier
                 new_dist == NewDist(current_state.dist_to_front_m,
                                     adjusted_delta)
             IN  /\ model_A' = Learn(model_A, input_A, pred_delta)
                 /\ trace' = Append(trace, [role |-> "A", day |-> loc.day,
                                            input |-> input_A,
                                            out |-> pred_delta])
                 /\ current_state' =
                      StageAWrites(current_state, adjusted_delta, new_dist)
                 /\ loc' = [loc EXCEPT !.adjusted_delta = adjusted_delta,
                                       !.new_dist = new_dist]
    /\ df' = StoredRows(df, args.city_name, current_state')
    /\ pc' = "stage_B"
    /\ UNCHANGED <<model_B, model_C, stubs, calls, cur, history, results>>

\* Line 64 raising: a column of feats_A is not in the row.
StageAKeyError ==
    /\ pc = "stage_A"
    /\ Missing(current_state, feats_A) # {}
    /\ UNCHANGED <<history, trace, current_state, loc>>
    /\ FinishWith("KeyError", Missing(current_state, feats_A))
    /\ UNCHANGED <<df, model_A, model_B, model_C, stubs, calls>>

\* Variant of StageBKeyError with the exception swallowed and the rows so
\* far returned.
StageBKeyError_Swallowed ==
    /\ pc = "stage_B"
    /\ Missing(current_state, feats_B) # {}
    /\ UNCHANGED <<history, trace, current_state, loc>>
    /\ FinishWith("DataFrame", {})
    /\ UNCHANGED <<df, model_A, model_B, model_C, stubs, calls>>

\* Line 82 raising: a column of feats_B is not in the row.
StageBKeyError ==
    /\ pc = "stage_B"
    /\ Missing(current_state, feats_B) # {}
    /\ UNCHANGED <<history, trace, current_state, loc>>
    /\ FinishWith("KeyError", Missing(current_state, feats_B))
    /\ UNCHANGED <<df, model_A, model_B, model_C, stubs, calls>>

\* Variant of StageBWrite that leaves the state as it was.
StageBWrite_NoWrite(state, pred_encirclement) == state

\* Line 87: current_state['encirclement_score'] = pred_encirclement
StageBWrite(state, pred_encirclement) ==
    [state EXCEPT !.encirclement_score = pred_encirclement]

\* Lines 82-87: encirclement, clipped, written into the state.
StageB ==
    /\ pc = "stage_B"
    /\ Missing(current_state, feats_B) = {}
    /\ LET input_B == Project(current_state, feats_B)
       IN  \E raw \in Outputs(model_B, input_B, stubs.B) :
             LET pred_encirclement == Clip01(raw)
             IN  /\ model_B' = Learn(model_B, input_B, raw)
                 /\ trace' = Append(trace, [role |-> "B", day |-> loc.day,
                                            input |-> input_B, out |-> raw])
                 /\ current_state' =
                      StageBWrite(current_state, pred_encirclement)
                 /\ loc' = [loc EXCEPT
                              !.pred_encirclement = pred_encirclement]
    /\ df' = StoredRows(df, args.city_name, current_state')
    /\ pc' = "stage_C"
    /\ UNCHANGED <<model_A, model_C, stubs, calls, cur, history, results>>

\* Variant of IsCaptured with >= for the threshold.
IsCaptured_AtLeast(prob_capture) ==
    IF 2 * prob_capture >= ScoreScale THEN 1 ELSE 0

\* Variant of IsCaptured that decides on the probability as it is recorded,
\* rounded to 3 decimals.
IsCaptured_OnRounded(prob_capture) ==
    IF 2 * RoundHalfEven(prob_capture, 10) > ScoreScale \div 10 THEN 1 ELSE 0

\* is_captured = 1 if prob_capture > 0.5 else 0
IsCaptured(prob_capture) == IF 2 * prob_capture > ScoreScale THEN 1 ELSE 0

\* Variants of LoopEnds: without the break, with range(1, days), and with
\* range(1, days + 2).
LoopEnds_NoBreak(is_captured, day, days) == day >= days

LoopEnds_LongRange(is_captured, day, days) == is_captured = 1 \/ day > days

LoopEnds_ShortRange(is_captured, day, days) ==
    is_captured = 1 \/ day + 1 >= days

\* The loop is left after this day: `break` on capture (lines 110-112) or
\* range(1, days + 1) is exhausted (line 60).
LoopEnds(is_captured, day, days) == is_captured = 1 \/ day >= days

\* Variant of StageC that also records the decision in the state
\* (current_state['is_captured'] = is_captured).
StageC_MarksCaptured ==
    /\ pc = "stage_C"
    /\ Missing(current_state, feats_C) = {}
    /\ LET input_C == Project(current_state, feats_C)
       IN  \E prob_capture \in Outputs(model_C, input_C, stubs.C) :
             LET is_captured == IsCaptured(prob_capture)
             IN  /\ model_C' = Learn(model_C, input_C, prob_capture)
                 /\ trace' = Append(trace, [role |-> "C", day |-> loc.day,
                                            input |-> input_C,
                                            out |-> prob_capture])
                 /\ history' = Append(history,
                                      Snapshot(loc.day, loc.new_dist,
                                               loc.adjusted_delta,
                                               loc.pred_encirclement,
                                               prob_capture, is_captured))
                 /\ current_state' =
                      [current_state EXCEPT !.is_captured = is_captured]
                 /\ IF LoopEnds(is_captured, loc.day, loc.days)
                    THEN /\ Finish("DataFrame")
                         /\ loc' = loc
                    ELSE /\ loc' = [loc EXCEPT !.day = loc.day + 1]
                         /\ pc' = "stage_A"
                         /\ UNCHANGED <<cur, results>>
    /\ UNCHANGED <<df, model_A, model_B, stubs, calls>>

\* Lines 91-114: capture probability, threshold, snapshot, break / next day /
\* end of the loop and the return of the frame.
StageC ==
    /\ pc = "stage_C"
    /\ Missing(current_state, feats_C) = {}
    /\ LET input_C == Project(current_state, feats_C)
       IN  \E prob_capture \in Outputs(model_C, input_C, stubs.C) :
             LET is_captured == IsCaptured(prob_capture)
             IN  /\ model_C' = Learn(model_C, input_C, prob_capture)
                 /\ trace' = Append(trace, [role |-> "C", day |-> loc.day,
                                            input |-> input_C,
                                            out |-> prob_capture])
                 /\ history' = Append(history,
                                      Snapshot(loc.day, loc.new_dist,
                                               loc.adjusted_delta,
                                               loc.pred_encirclement,
                                               prob_capture, is_captured))
                 /\ current_state' = current_state
                 /\ IF LoopEnds(is_captured, loc.day, loc.days)
                    THEN /\ Finish("DataFrame")
                         /\ loc' = loc
                    ELSE /\ loc' = [loc EXCEPT !.day = loc.day + 1]
                         /\ pc' = "stage_A"
                         /\ UNCHANGED <<cur, results>>
    /\ UNCHANGED <<df, model_A, model_B, stubs, calls>>

Next ==
    \/ CallCityNotFound
    \/ CallAlreadyOccupied
    \/ CallNoDays
    \/ CallEnterLoop
    \/ StageA
    \/ StageAKeyError
    \/ StageB
    \/ StageBKeyError
    \/ StageC

Spec == Init /\ [][Next]_vars

SpecPair == InitPair /\ [][Next]_vars

SpecFallback == InitFallback /\ [][Next]_vars

\* ------------------------------------------------ observing the runs
\* A finished call: its arguments, outcome, snapshots and predictor calls.
Finished == {[call |-> calls[i], kind |-> results[i].kind,
              history |-> results[i].history, trace |-> results[i].trace]
             : i \in DOMAIN results}

Running == pc \in {"stage_A", "stage_B", "stage_C"}

\* The entry of a predictor call log for one role and day.
HasEntry(tr, role, day) ==
    \E n \in DOMAIN tr : tr[n].role = role /\ tr[n].day = day

Entry(tr, role, day) ==
    tr[CHOOSE n \in DOMAIN tr : tr[n].role = role /\ tr[n].day = day]

\* The raw capture probability of each day the capture predictor ran.
FirstCapture(tr, k) ==
    /\ HasEntry(tr, "C", k)
    /\ 2 * Entry(tr, "C", k).out > ScoreScale
    /\ \A n \in DOMAIN tr :
          (tr[n].role = "C" /\ tr[n].day < k) => 2 * tr[n].out <= ScoreScale

NeverCaptured(tr) ==
    \A n \in DOMAIN tr : tr[n].role = "C" => 2 * tr[n].out <= ScoreScale

OnlyLastOccupied(h) == \A j \in 1..(Len(h) - 1) : h[j].status = "FREE"

\* C1: if day k is the first day with capture probability > 0.5, the run
\* returns exactly k snapshots, the k-th OCCUPIED, all earlier ones FREE,
\* and at no time is there a snapshot after an OCCUPIED one.
C1_EarlyTerminationExact ==
    /\ \A r \in Finished : \A k \in 1..MaxDays :
          (k <= r.call.days /\ FirstCapture(r.trace, k)) =>
             /\ r.kind = "DataFrame"
             /\ Len(r.history) = k
             /\ r.history[k].status = "OCCUPIED"
             /\ r.history[k].day = k
             /\ OnlyLastOccupied(r.history)
             /\ ~ HasEntry(r.trace, "A", k + 1)
    /\ OnlyLastOccupied(history)
    /\ Running => \A j \in DOMAIN history : history[j].status = "FREE"

C1_Witness ==
    \E r \in Finished :
       /\ r.call.days = 3
       /\ FirstCapture(r.trace, 2)
       /\ Len(r.history) = 2
       /\ r.history[2].status = "OCCUPIED"

\* C2: a simulated run whose capture probability never exceeds 0.5 returns
\* exactly `days` snapshots, numbered 1..days, all with status FREE.
C2_HorizonCompletion ==
    \A r \in Finished :
       (r.kind = "DataFrame" /\ NeverCaptured(r.trace)) =>
          /\ Len(r.history) = r.call.days
          /\ \A j \in DOMAIN r.history : r.history[j].status = "FREE"
          /\ \A j \in 1..r.call.days : HasEntry(r.trace, "C", j)

C2_Witness ==
    \E r \in Finished :
       /\ r.kind = "DataFrame"
       /\ r.call.days = 3
       /\ NeverCaptured(r.trace)
       /\ Len(r.history) = 3
       /\ 2 * Entry(r.trace, "C", 3).out = ScoreScale

CaptureOccurred(h) == \E j \in DOMAIN h : h[j].status = "OCCUPIED"

\* C3 as stated: a run is never longer than the horizon, and it is shorter
\* than the horizon exactly when a capture occurred (on any day, the last
\* day of the horizon included).
C3_Original ==
    \A r \in Finished :
       r.kind = "DataFrame" =>
          /\ Len(r.history) <= r.call.days
          /\ (Len(r.history) < r.call.days) <=> CaptureOccurred(r.history)

\* C3 amended: a run is never longer than the horizon; it is shorter than
\* the horizon exactly when a capture occurred on a day before the last day
\* of the horizon; a capture on the last day gives length = horizon.
C3_ShorterIffEarlyCapture ==
    \A r \in Finished :
       r.kind = "DataFrame" =>
          /\ Len(r.history) <= r.call.days
          /\ (Len(r.history) < r.call.days) <=>
                (\E j \in DOMAIN r.history :
                    r.history[j].status = "OCCUPIED" /\ j < r.call.days)
          /\ (\E j \in DOMAIN r.history :
                 r.history[j].status = "OCCUPIED" /\ j = r.call.days)
               => Len(r.history) = r.call.days

C3_Witness ==
    /\ \E r \in Finished :
          /\ r.kind = "DataFrame" /\ r.call.days = 3
          /\ Len(r.history) = 3 /\ r.history[3].status = "OCCUPIED"

C3_WitnessEarly ==
    \E r \in Finished :
       /\ r.kind = "DataFrame" /\ r.call.days = 3
       /\ Len(r.history) = 1 /\ r.history[1].status = "OCCUPIED"

AnchorCaptured(call) ==
    /\ city_data(df, call.city_name) # {}
    /\ get_city_state(df, call.city_name).is_captured = 1

\* C4: a call for a city whose anchor row has is_captured = 1 invokes no
\* predictor, emits no snapshot and returns None; None is returned in no
\* other case, and a zero-day run of a free city returns an (empty) frame.
C4_AlreadyOccupied ==
    /\ \A r \in Finished :
          /\ AnchorCaptured(r.call) =>
                r.kind = "None" /\ r.trace = <<>> /\ r.history = <<>>
          /\ r.kind = "None" => AnchorCaptured(r.call)
          /\ (r.call.days = 0 /\ r.kind # "ValueError"
                /\ ~ AnchorCaptured(r.call))
               => r.kind = "DataFrame" /\ r.history = <<>>
    /\ Running => ~ AnchorCaptured(args)

C4_Witness ==
    \E r \in Finished :
       AnchorCaptured(r.call) /\ r.call.days = 3 /\ r.kind = "None"

\* The front-dynamics call of the day in progress (the last A entry).
DayStart == Entry(trace, "A", loc.day)

MidDay == pc \in {"stage_B", "stage_C"}

\* C5: after every simulated day the state's dist_to_front_m and every
\* snapshot's distance are >= 0, and the new distance is
\* max(0, previous distance - adjusted delta).
C5_DistanceNonNegative ==
    /\ current_state # NoState => current_state.dist_to_front_m >= 0
    /\ \A j \in DOMAIN history : history[j].dist_to_front >= 0
    /\ \A r \in Finished : \A j \in DOMAIN r.history :
          r.history[j].dist_to_front >= 0
    /\ MidDay =>
          LET before == DayStart.input[1]
              adj == DayStart.out * modifiers(args.scenario)
          IN  current_state.dist_to_front_m =
                 (IF before - adj > 0 THEN before - adj ELSE 0)

C5_Witness ==
    /\ pc = "stage_C"
    /\ DayStart.input[1] - DayStart.out * modifiers(args.scenario) < 0
    /\ current_state.dist_to_front_m = 0
    /\ DayStart.input[1] > 0

\* C6: on a day whose predicted delta is >= 0 (the modifier is > 0), the
\* distance after the day is <= the distance before the day, in the state
\* and between consecutive snapshots.
C6_MonotoneUnderAdvance ==
    /\ MidDay =>
          ((DayStart.out >= 0 /\ modifiers(args.scenario) > 0) =>
              current_state.dist_to_front_m <= DayStart.input[1])
    /\ \A r \in Finished : \A j \in 2..Len(r.history) :
          Entry(r.trace, "A", j).out >= 0 =>
             r.history[j].dist_to_front <= r.history[j - 1].dist_to_front

C6_Witness ==
    /\ pc = "stage_B"
    /\ loc.day = 2
    /\ DayStart.out > 0
    /\ 0 < current_state.dist_to_front_m
    /\ current_state.dist_to_front_m < DayStart.input[1]

\* C7 as stated: if the distance is 0 at the start of a day it is 0 after
\* that day, whatever the predicted delta.
C7_Original ==
    MidDay => (DayStart.input[1] = 0 => current_state.dist_to_front_m = 0)

\* C7 amended: if the distance is 0 at the start of a day, it is 0 after
\* that day when the predicted delta is >= 0; a negative delta (a predicted
\* retreat) moves it to |delta| x modifier.
C7_ZeroStaysZeroUnderAdvance ==
    MidDay =>
       (DayStart.input[1] = 0 =>
           current_state.dist_to_front_m =
              (IF DayStart.out >= 0 THEN 0
               ELSE (0 - DayStart.out) * modifiers(args.scenario)))

C7_Witness ==
    /\ pc = "stage_B"
    /\ DayStart.input[1] = 0
    /\ DayStart.out > 0
    /\ current_state.dist_to_front_m = 0

\* The encirclement call of the day in progress.
DayEnc == Entry(trace, "B", loc.day)

\* C8: after every simulated day the encirclement_score in the state and
\* in the snapshot lies in [0, 1]: a raw output above 1 becomes 1, below 0
\* becomes 0, inside the range it is kept.
C8_EncirclementClipped ==
    /\ current_state # NoState =>
          /\ current_state.encirclement_score >= 0
          /\ current_state.encirclement_score <= ScoreScale
    /\ \A j \in DOMAIN history :
          history[j].encirclement >= 0 /\ history[j].encirclement <= 1000
    /\ \A r \in Finished : \A j \in DOMAIN r.history :
          r.history[j].encirclement >= 0 /\ r.history[j].encirclement <= 1000
    /\ pc = "stage_C" =>
          current_state.encirclement_score =
             (IF DayEnc.out > ScoreScale THEN ScoreScale
              ELSE IF DayEnc.out < 0 THEN 0 ELSE DayEnc.out)

C8_Witness ==
    /\ pc = "stage_C"
    /\ DayEnc.out > ScoreScale
    /\ current_state.encirclement_score = ScoreScale

PairDone == Len(results) = 2 /\ Len(calls) = 2

ShorterLen == IF Len(results[1].history) <= Len(results[2].history)
              THEN Len(results[1].history) ELSE Len(results[2].history)

\* The unrounded distance written on day k of a finished run.
DistOnDay(r, k) == Entry(results[r].trace, "B", k).input[1]

DeltaOnDay(r, k) == Entry(results[r].trace, "A", k).out

\* C10 as stated: with the same deterministic predictors, the aggressive
\* run's day-k distance is <= the conservative run's day-k distance for
\* every k up to the length of the shorter run.
C10_Original ==
    PairDone =>
       \A k \in 1..ShorterLen :
          /\ DistOnDay(2, k) <= DistOnDay(1, k)
          /\ results[2].history[k].dist_to_front
                <= results[1].history[k].dist_to_front

\* C10 amended: the aggressive run's day-k distance is <= the conservative
\* run's day-k distance for every k up to the length of the shorter run up
\* to which the front-dynamics predictor returned, on each day, the same
\* non-negative delta in both runs.
C10_AggressiveCloserUnderSameAdvance ==
    PairDone =>
       \A k \in 1..ShorterLen :
          (\A j \in 1..k : /\ DeltaOnDay(1, j) = DeltaOnDay(2, j)
                           /\ DeltaOnDay(1, j) >= 0)
          => /\ DistOnDay(2, k) <= DistOnDay(1, k)
             /\ results[2].history[k].dist_to_front
                   <= results[1].history[k].dist_to_front

C10_Witness ==
    /\ PairDone
    /\ ShorterLen >= 2
    /\ \A j \in 1..2 : DeltaOnDay(1, j) = DeltaOnDay(2, j) /\ DeltaOnDay(1, j) > 0
    /\ DistOnDay(2, 1) < DistOnDay(1, 1)
    /\ DistOnDay(2, 2) < DistOnDay(1, 2)

\* A weaker amendment of C10 that does not hold: non-negative deltas alone
\* do not order the two runs, because the predictor may return a larger
\* delta on the conservative run's state than on the aggressive run's.
C10_NonNegativeOnly ==
    PairDone =>
       \A k \in 1..ShorterLen :
          (\A j \in 1..k : DeltaOnDay(1, j) >= 0 /\ DeltaOnDay(2, j) >= 0)
          => DistOnDay(2, k) <= DistOnDay(1, k)

\* Both calls of a two-call behaviour have returned.
BothReturned == Len(calls) = 2 /\ Len(results) = 2

\* The index (1 or 2) of the call made with the given label.
CallOf(label) == CHOOSE i \in DOMAIN calls : calls[i].scenario = label

\* C11: a label outside the table does not fail and uses modifier 1.0: with
\* the same anchor and the same deterministic predictors the run has the
\* same outcome and exactly the same snapshots as the inertial run, and its
\* applied delta is the predicted delta.
C11_UnknownLabelIsInertial ==
    /\ BothReturned =>
          LET u == results[CallOf("blitz")]
              n == results[CallOf("inertial")]
          IN  /\ u.kind = n.kind
              /\ u.history = n.history
              /\ u.named = n.named
              /\ \A j \in DOMAIN u.history :
                    u.history[j].delta_real = 10 * Entry(u.trace, "A", j).out
    /\ (Running /\ args.scenario = "blitz") => loc.modifier = DistScale

C11_Witness ==
    /\ BothReturned
    /\ calls[2].scenario = "blitz"
    /\ results[2].kind = "DataFrame"
    /\ Len(results[2].history) = 2
    /\ results[2].history = results[1].history
    /\ results[2].history[1].delta_real = 30
    /\ results[2].history[2].delta_real = -20

\* The call entered the simulation loop: the city has rows, its anchor row is
\* not occupied and the horizon is at least one day.
Simulated(call) ==
    /\ city_data(df, call.city_name) # {}
    /\ get_city_state(df, call.city_name).is_captured # 1
    /\ call.days >= 1

\* The columns some predictor requires and the anchor row of the call lacks.
Lacking(call) ==
    LET anchor == get_city_state(df, call.city_name)
        required == {feats_A[i] : i \in DOMAIN feats_A}
                       \cup {feats_B[i] : i \in DOMAIN feats_B}
                       \cup {feats_C[i] : i \in DOMAIN feats_C}
    IN  required \ DOMAIN anchor

\* C12: a simulated run whose state lacks a feature required by a predictor
\* ends in an error naming a missing feature (and only missing ones); no
\* snapshot exists for the day of the failed lookup and no frame is returned.
\* A run whose state has every required feature does not end that way.
C12_MissingFeatureIsFatal ==
    /\ \A i \in DOMAIN results :
          Simulated(calls[i]) =>
             IF Lacking(calls[i]) # {}
             THEN /\ results[i].kind = "KeyError"
                  /\ results[i].named # {}
                  /\ results[i].named \subseteq Lacking(calls[i])
                  /\ results[i].history = <<>>
             ELSE /\ results[i].kind = "DataFrame"
                  /\ results[i].named = {}
    /\ Running => \A j \in DOMAIN history : history[j].day < loc.day

C12_Witness ==
    \E i \in DOMAIN results :
       /\ calls[i].days = 3
       /\ results[i].kind = "KeyError"
       /\ results[i].named = {"ru_armor_lag1"}
       /\ HasEntry(results[i].trace, "A", 1)
       /\ ~ HasEntry(results[i].trace, "B", 1)
       /\ results[i].history = <<>>

\* The input of the first predictor call of a run: the state it started from.
StartedFrom(tr) == tr[1].input

Fed(e, feats, name) == e.input[CHOOSE i \in DOMAIN feats : feats[i] = name]

\* The traces of all runs, finished or in progress, with their modifier.
Traces ==
    {[trace |-> results[i].trace, modifier |-> modifiers(calls[i].scenario),
      call |-> calls[i]] : i \in DOMAIN results}
    \cup (IF Running
          THEN {[trace |-> trace, modifier |-> modifiers(args.scenario),
                 call |-> args]}
          ELSE {})

\* The adjusted delta of a day: prediction x modifier (half metres).
Adjusted(t, day) == Entry(t.trace, "A", day).out * t.modifier

\* C14: on every day the encirclement predictor reads the state after that
\* day's front-dynamics writes: its dist_to_front_m is
\* max(0, start-of-day distance - adjusted delta) and its delta_dist_daily
\* is that day's adjusted delta, and the front-dynamics call came first.
C14_EncirclementReadsUpdatedState ==
    \A t \in Traces : \A n \in DOMAIN t.trace :
       t.trace[n].role = "B" =>
          LET b == t.trace[n]
              a == t.trace[n - 1]
              before == Fed(a, feats_A, "dist_to_front_m")
              adj == Adjusted(t, b.day)
          IN  /\ n > 1 /\ a.role = "A" /\ a.day = b.day
              /\ Fed(b, feats_B, "delta_dist_daily") = adj
              /\ Fed(b, feats_B, "dist_to_front_m") =
                    (IF before > adj THEN before - adj ELSE 0)

C14_Witness ==
    /\ pc = "stage_C"
    /\ loc.day = 2
    /\ Fed(DayEnc, feats_B, "dist_to_front_m")
          # Fed(DayStart, feats_A, "dist_to_front_m")
    /\ Fed(DayEnc, feats_B, "delta_dist_daily")
          # Fed(DayStart, feats_A, "delta_dist_daily")
    /\ Fed(DayEnc, feats_B, "dist_to_front_m") > 0

\* after = before * (1 - 1/k) + delta/k for momentum fractions and a delta in
\* half metres, as one quotient in lowest terms.
Smoothed(after, before, adj, k) ==
    after = Frac((k - 1) * DistScale * before[1] + adj * before[2],
                 k * DistScale * before[2])

\* C15: on every day the capture predictor reads the fully updated state:
\* its encirclement_score is that day's encirclement prediction clipped to
\* [0, 1], its dist_to_front_m the distance written that day and its
\* momentum_30d that day's 0.95 * old + 0.05 * adjusted delta; the
\* encirclement call came right before it.
C15_CaptureReadsUpdatedState ==
    \A t \in Traces : \A n \in DOMAIN t.trace :
       t.trace[n].role = "C" =>
          LET c == t.trace[n]
              b == t.trace[n - 1]
              a == t.trace[n - 2]
              enc == Fed(c, feats_C, "encirclement_score")
          IN  /\ n > 2 /\ b.role = "B" /\ a.role = "A"
              /\ b.day = c.day /\ a.day = c.day
              /\ enc = (IF b.out < 0 THEN 0
                        ELSE IF b.out > ScoreScale THEN ScoreScale
                        ELSE b.out)
              /\ Fed(c, feats_C, "dist_to_front_m")
                    = Fed(b, feats_B, "dist_to_front_m")
              /\ Smoothed(Fed(c, feats_C, "momentum_30d"),
                          Fed(a, feats_A, "momentum_30d"),
                          Adjusted(t, c.day), 20)

C15_Witness ==
    \E t \in Traces :
       /\ HasEntry(t.trace, "C", 2)
       /\ Entry(t.trace, "B", 2).out = 17000
       /\ Fed(Entry(t.trace, "A", 2), feats_A, "encirclement_score") = 0
       /\ Fed(Entry(t.trace, "C", 2), feats_C, "encirclement_score")
             = ScoreScale
       /\ Fed(Entry(t.trace, "C", 2), feats_C, "momentum_30d")
             # Fed(Entry(t.trace, "A", 2), feats_A, "momentum_30d")

\* C16: a call for a city without rows fails with the city-not-found error
\* (ValueError) before the simulation starts: no predictor is invoked, no
\* snapshot is produced, no state is fetched; that error occurs in no other
\* case, and a run in progress is always for a city that has rows.
C16_CityNotFound ==
    /\ \A i \in DOMAIN results :
          /\ city_data(df, calls[i].city_name) = {} =>
                /\ results[i].kind = "ValueError"
                /\ results[i].trace = <<>>
                /\ results[i].history = <<>>
                /\ results[i].final = NoState
          /\ results[i].kind = "ValueError" =>
                city_data(df, calls[i].city_name) = {}
    /\ Running => city_data(df, args.city_name) # {}

C16_Witness ==
    \E i \in DOMAIN results :
       /\ calls[i].city_name = "Atlantis"
       /\ calls[i].days = 3
       /\ results[i].kind = "ValueError"
       /\ results[i].trace = <<>>

\* The snapshots of all runs, finished or in progress, with the predictor
\* calls and the modifier of the run.
Histories ==
    {[history |-> results[i].history, trace |-> results[i].trace,
      modifier |-> modifiers(calls[i].scenario)] : i \in DOMAIN results}
    \cup (IF Running
          THEN {[history |-> history, trace |-> trace,
                 modifier |-> modifiers(args.scenario)]}
          ELSE {})

\* C17: with adjusted = prediction x modifier, a day sets delta_dist_daily
\* to adjusted, momentum_7d to 0.9 * old + 0.1 * adjusted and momentum_30d to
\* 0.95 * old + 0.05 * adjusted, and the snapshot's applied delta is adjusted
\* (in tenths of a metre), also on a day whose distance was clamped at 0.
C17_MomentumUpdate ==
    /\ MidDay =>
          LET adj == DayStart.out * modifiers(args.scenario)
          IN  /\ current_state.delta_dist_daily = adj
              /\ loc.adjusted_delta = adj
              /\ Smoothed(current_state.momentum_7d,
                          Fed(DayStart, feats_A, "momentum_7d"), adj, 10)
              /\ Smoothed(current_state.momentum_30d,
                          Fed(DayStart, feats_A, "momentum_30d"), adj, 20)
    /\ \A h \in Histories : \A j \in DOMAIN h.history :
          2 * h.history[j].delta_real = 10 * Adjusted(h, j)

C17_Witness ==
    /\ pc = "stage_A"
    /\ loc.day = 3
    /\ history[1].dist_to_front = 1
    /\ history[2].dist_to_front = 0
    /\ history[2].delta_real = 30
    /\ current_state.delta_dist_daily = 3 * DistScale
    /\ current_state.dist_to_front_m = 0

\* C18: the threshold is strict: a day is OCCUPIED, and is the last day of
\* the run, exactly when its capture probability is > 0.5; a probability of
\* exactly 0.5 gives FREE and, before the horizon, the next day is simulated.
C18_StrictThreshold ==
    /\ \A h \in Histories : \A j \in DOMAIN h.history :
          LET raw == Entry(h.trace, "C", j).out
          IN  /\ (h.history[j].status = "OCCUPIED") <=> (2 * raw > ScoreScale)
              /\ (h.history[j].status = "FREE") <=> (2 * raw <= ScoreScale)
              /\ 2 * raw > ScoreScale => j = Len(h.history)
    /\ \A i \in DOMAIN results : \A j \in DOMAIN results[i].history :
          (2 * Entry(results[i].trace, "C", j).out = ScoreScale
             /\ j < calls[i].days)
          => /\ Len(results[i].history) > j
             /\ HasEntry(results[i].trace, "A", j + 1)

C18_Witness ==
    \E i \in DOMAIN results :
       /\ calls[i].days = 3
       /\ Len(results[i].history) = 2
       /\ 2 * Entry(results[i].trace, "C", 1).out = ScoreScale
       /\ results[i].history[1].status = "FREE"
       /\ results[i].history[2].status = "OCCUPIED"
       /\ Entry(results[i].trace, "C", 2).out = 5004

\* C19 as stated: the probability recorded in a snapshot is the capture
\* predictor's output of that day verbatim, the value the threshold was
\* applied to, not altered in any way.
C19_Original ==
    \A h \in Histories : \A j \in DOMAIN h.history :
       10 * h.history[j].prob_capture = Entry(h.trace, "C", j).out

\* C19 amended: the probability recorded in a snapshot is the capture
\* predictor's output of that day rounded to 3 decimals and not clipped: it
\* is within 0.0005 of the output, equal to it when the output has at most 3
\* decimals, and the status was decided on the unrounded output.
C19_ProbabilityRoundedNotClipped ==
    \A h \in Histories : \A j \in DOMAIN h.history :
       LET raw == Entry(h.trace, "C", j).out
           shown == h.history[j].prob_capture
       IN  /\ 10 * shown - raw \in -5..5
           /\ raw % 10 = 0 => 10 * shown = raw
           /\ (h.history[j].status = "OCCUPIED") <=> (2 * raw > ScoreScale)

C19_Witness ==
    \E h \in Histories : \E j \in DOMAIN h.history :
       /\ Entry(h.trace, "C", j).out = 5004
       /\ h.history[j].prob_capture = 500
       /\ h.history[j].status = "OCCUPIED"
       /\ j = 2
       /\ Entry(h.trace, "C", 1).out = -2000
       /\ h.history[1].prob_capture = -200

\* C20: the loop is closed: on day 1 the front-dynamics predictor reads the
\* anchor row; on every day n >= 2 it reads, right after day n-1's capture
\* call and before any call of day n, the dist_to_front_m,
\* encirclement_score, delta_dist_daily, momentum_7d and momentum_30d written
\* on day n-1, and the anchor's values of the fields no day writes.
C20_ClosedLoop ==
    \A t \in Traces : \A n \in DOMAIN t.trace :
       t.trace[n].role = "A" =>
          LET a == t.trace[n]
          IN  IF a.day = 1
              THEN /\ n = 1
                   /\ a.input = Project(get_city_state(df, t.call.city_name),
                                        feats_A)
              ELSE LET pa == t.trace[n - 3]
                       pb == t.trace[n - 2]
                       pc1 == t.trace[n - 1]
                       adj == pa.out * t.modifier
                       was == Fed(pa, feats_A, "dist_to_front_m")
                   IN  /\ n > 3
                       /\ pa.role = "A" /\ pa.day = a.day - 1
                       /\ pb.role = "B" /\ pb.day = a.day - 1
                       /\ pc1.role = "C" /\ pc1.day = a.day - 1
                       /\ Fed(a, feats_A, "dist_to_front_m")
                             = (IF was > adj THEN was - adj ELSE 0)
                       /\ Fed(a, feats_A, "encirclement_score")
                             = (IF pb.out < 0 THEN 0
                                ELSE IF pb.out > ScoreScale THEN ScoreScale
                                ELSE pb.out)
                       /\ Fed(a, feats_A, "delta_dist_daily") = adj
                       /\ Smoothed(Fed(a, feats_A, "momentum_7d"),
                                   Fed(pa, feats_A, "momentum_7d"), adj, 10)
                       /\ Smoothed(Fed(a, feats_A, "momentum_30d"),
                                   Fed(pa, feats_A, "momentum_30d"), adj, 20)
                       /\ Fed(a, feats_A, "pct_occupied")
                             = Fed(pa, feats_A, "pct_occupied")
                       /\ Fed(a, feats_A, "fortification_level")
                             = Fed(pa, feats_A, "fortification_level")

C20_Witness ==
    \E t \in Traces :
       /\ HasEntry(t.trace, "A", 3)
       /\ LET a1 == Entry(t.trace, "A", 1)
              a2 == Entry(t.trace, "A", 2)
              a3 == Entry(t.trace, "A", 3)
          IN  /\ Fed(a3, feats_A, "dist_to_front_m")
                    < Fed(a2, feats_A, "dist_to_front_m")
              /\ Fed(a2, feats_A, "dist_to_front_m")
                    < Fed(a1, feats_A, "dist_to_front_m")
              /\ Fed(a3, feats_A, "encirclement_score")
                    # Fed(a2, feats_A, "encirclement_score")
              /\ Fed(a3, feats_A, "momentum_7d")
                    # Fed(a2, feats_A, "momentum_7d")
              /\ Fed(a3, feats_A, "delta_dist_daily") = 3

\* ------------------------------------------------------------ termination
\* The behaviours in which a call in progress takes its next step:
\* run_simulation is one sequential thread without suspension points.
SpecLive == Init /\ [][Next]_vars /\ WF_vars(Next)

\* How a finished call left the loop: with a snapshot marked OCCUPIED
\* (break, lines 110-112), with range(1, days + 1) exhausted and no capture
\* (line 60), or not through the loop's own exits (exception, None).
RunState(i) ==
    LET h == results[i].history
    IN  IF results[i].kind # "DataFrame" THEN "ABORTED"
        ELSE IF h # <<>> /\ h[Len(h)].status = "OCCUPIED" THEN "CAPTURED"
        ELSE IF Len(h) = calls[i].days THEN "HORIZON_REACHED"
        ELSE "RUNNING"

\* Predictor stages and call entries still ahead if no capture cuts the
\* run short: three stages per remaining day.
StepsLeft ==
    IF pc = "idle" THEN 0
    ELSE (Len(calls) - cur) * (3 * MaxDays + 1)
         + (IF pc = "call" THEN 3 * args.days + 1
            ELSE 3 * (loc.days - loc.day)
                 + (IF pc = "stage_A" THEN 3
                    ELSE IF pc = "stage_B" THEN 2 ELSE 1))

\* The days on which the front-dynamics predictor was called.
DaysSimulated(tr) == {tr[n].day : n \in {m \in DOMAIN tr : tr[m].role = "A"}}

\* What holds of the runs at every moment: a run in progress is within its
\* horizon; a finished run that entered the loop with every required column
\* ended CAPTURED or HORIZON_REACHED after at most `days` days, and its state
\* is the one the last day's stages wrote; a run with an empty range ended
\* HORIZON_REACHED at once.
EndsWithinHorizon ==
    /\ StepsLeft >= 0
    /\ Running => /\ loc.day \in 1..loc.days
                  /\ Len(history) = loc.day - 1
                  /\ DaysSimulated(trace) \subseteq 1..loc.days
    /\ \A i \in DOMAIN results :
          /\ Len(results[i].history) <= Max(0, calls[i].days)
          /\ DaysSimulated(results[i].trace) \subseteq 1..calls[i].days
          /\ (Simulated(calls[i]) /\ Lacking(calls[i]) = {}) =>
                LET tr == results[i].trace
                    last == Len(results[i].history)
                IN  /\ RunState(i) \in {"CAPTURED", "HORIZON_REACHED"}
                    /\ last >= 1
                    /\ Len(tr) = 3 * last
                    /\ tr[Len(tr)].role = "C"
                    /\ tr[Len(tr)].day = last
                    /\ results[i].final.dist_to_front_m
                          = Entry(tr, "B", last).input[1]
                    /\ results[i].final.encirclement_score
                          = Clip01(Entry(tr, "B", last).out)
          /\ (city_data(df, calls[i].city_name) # {}
                /\ get_city_state(df, calls[i].city_name).is_captured # 1
                /\ calls[i].days < 1)
             => /\ RunState(i) = "HORIZON_REACHED"
                /\ results[i].trace = <<>>

\* C21: every run terminates: each step of a run uses up one of the at most
\* 3 * days + 1 steps it has, a run never simulates more than `days` days,
\* a run that entered the loop (with every required column) ends CAPTURED or
\* HORIZON_REACHED, the call eventually returns, and after it has returned
\* nothing is updated any more.
C21_Terminates ==
    /\ [][StepsLeft' < StepsLeft]_vars
    /\ [][pc = "idle" => UNCHANGED vars]_vars
    /\ [][\A i \in DOMAIN results :
             i \in DOMAIN results' /\ results'[i] = results[i]]_vars
    /\ []EndsWithinHorizon
    /\ <>[](pc = "idle" /\ Len(results) = Len(calls))

C21_Witness ==
    /\ pc = "idle"
    /\ Len(results) = 1
    /\ calls[1].days = 3
    /\ RunState(1) = "HORIZON_REACHED"
    /\ Len(results[1].history) = 3
    /\ Len(results[1].trace) = 9
    /\ results[1].final.dist_to_front_m = 0

\* ------------------------------------------------------- snapshot numbering
\* The days for which the capture predictor was called, i.e. the days whose
\* three stages were all carried out.
DaysCompleted(tr) == {tr[n].day : n \in {m \in DOMAIN tr : tr[m].role = "C"}}

\* h is a prefix of g.
IsPrefix(h, g) == Len(h) <= Len(g) /\ \A j \in DOMAIN h : g[j] = h[j]

\* C22: in every run, finished or in progress, the i-th snapshot has
\* day = i, there is exactly one snapshot for every completed day and none
\* for any other day, and a snapshot is never changed or removed while its
\* run goes on.
C22_ConsecutiveDays ==
    /\ [](\A h \in Histories :
            /\ \A j \in DOMAIN h.history : h.history[j].day = j
            /\ DaysCompleted(h.trace) = DOMAIN h.history
            /\ Cardinality({n \in DOMAIN h.trace : h.trace[n].role = "C"})
                  = Len(h.history))
    /\ [][(Running /\ pc' # "call") => IsPrefix(history, history')]_vars
    /\ [][\A i \in DOMAIN results :
             results[i].history = results'[i].history]_vars

C22_Witness ==
    \E i \in DOMAIN results :
       /\ calls[i].days = 3
       /\ Len(results[i].history) = 3
       /\ results[i].history[1].day = 1
       /\ results[i].history[2].day = 2
       /\ results[i].history[3].day = 3
       /\ results[i].history[3].status = "OCCUPIED"
       /\ DaysCompleted(results[i].trace) = {1, 2, 3}

\* ------------------------------------------- status and shown probability
\* C23 as stated: in every snapshot the status is OCCUPIED exactly when the
\* probability recorded in that snapshot (thousandths) is greater than 0.5.
C23_Original ==
    \A h \in Histories : \A j \in DOMAIN h.history :
       (h.history[j].status = "OCCUPIED")
          <=> (2 * h.history[j].prob_capture > ScoreScale \div 10)

\* C23 amended: the status is OCCUPIED exactly when the unrounded capture
\* probability of the day is greater than 0.5; a snapshot whose recorded
\* probability is greater than 0.5 is OCCUPIED, one whose recorded
\* probability is less than 0.5 is FREE, and a recorded probability of
\* exactly 0.5 goes with either status.
C23_StatusFollowsUnrounded ==
    \A h \in Histories : \A j \in DOMAIN h.history :
       LET raw == Entry(h.trace, "C", j).out
           shown == h.history[j].prob_capture
           status == h.history[j].status
       IN  /\ status \in {"OCCUPIED", "FREE"}
           /\ (status = "OCCUPIED") <=> (2 * raw > ScoreScale)
           /\ 2 * shown > ScoreScale \div 10 => status = "OCCUPIED"
           /\ 2 * shown < ScoreScale \div 10 => status = "FREE"
           /\ (status = "OCCUPIED" /\ 2 * shown = ScoreScale \div 10)
                 => 10 * shown < raw

C23_Witness ==
    \E h \in Histories :
       /\ Len(h.history) = 2
       /\ h.history[1].prob_capture = 500
       /\ h.history[1].status = "FREE"
       /\ h.history[2].prob_capture = 500
       /\ h.history[2].status = "OCCUPIED"

\* ------------------------------------------------------ frame of a day
\* The fields a simulated day assigns (lines 74-76, 79, 87).
Written == {"dist_to_front_m", "delta_dist_daily", "momentum_7d",
            "momentum_30d", "encirclement_score"}

\* state has the anchor's fields, and the anchor's value in every field
\* outside `fields`.
SameOutside(state, anchor, fields) ==
    /\ DOMAIN state = DOMAIN anchor
    /\ \A k \in DOMAIN anchor \ fields : state[k] = anchor[k]

\* C24: at every point of a run and at its end the state differs from the
\* anchor row at most in the five written fields: pct_occupied, is_captured,
\* the static and the attrition columns keep the anchor's values, also after
\* the day that was declared OCCUPIED.  Within a day the front-dynamics
\* stage leaves encirclement_score alone, the encirclement stage writes
\* nothing but encirclement_score and the capture stage writes nothing.
C24_FrameOfADay ==
    /\ [](Running =>
            SameOutside(current_state, get_city_state(df, args.city_name),
                        Written))
    /\ [](\A i \in DOMAIN results :
            results[i].final # NoState =>
               SameOutside(results[i].final,
                           get_city_state(df, calls[i].city_name), Written))
    /\ [][(pc = "stage_A" /\ pc' = "stage_B") =>
             SameOutside(current_state', current_state,
                         Written \ {"encirclement_score"})]_vars
    /\ [][(pc = "stage_B" /\ pc' = "stage_C") =>
             SameOutside(current_state', current_state,
                         {"encirclement_score"})]_vars
    /\ [][pc = "stage_C" => current_state' = current_state]_vars

C24_Witness ==
    \E i \in DOMAIN results :
       LET anchor == get_city_state(df, calls[i].city_name)
           final == results[i].final
           h == results[i].history
       IN  /\ Len(h) = 2
           /\ h[2].status = "OCCUPIED"
           /\ final.is_captured = 0
           /\ final.pct_occupied = anchor.pct_occupied
           /\ final.ru_armor_lag1 = anchor.ru_armor_lag1
           /\ \A k \in Written : final[k] # anchor[k]

\* ------------------------------------------------- predictor invocations
\* The runs, finished or in progress: snapshots, predictor calls, how the
\* call ended ("running" while it has not) and the stage it is in.
Runs ==
    {[history |-> results[i].history, trace |-> results[i].trace,
      kind |-> results[i].kind, at |-> "done"] : i \in DOMAIN results}
    \cup (IF Running
          THEN {[history |-> history, trace |-> trace, kind |-> "running",
                 at |-> pc]}
          ELSE {})

\* The predictor calls of day j are the three log entries 3j-2, 3j-1, 3j:
\* front dynamics, encirclement, capture.
ThreeCallsInOrder(tr, j) ==
    /\ 3 * j <= Len(tr)
    /\ tr[3 * j - 2].role = "A" /\ tr[3 * j - 2].day = j
    /\ tr[3 * j - 1].role = "B" /\ tr[3 * j - 1].day = j
    /\ tr[3 * j].role = "C" /\ tr[3 * j].day = j
    /\ \A n \in DOMAIN tr : tr[n].day = j => n \in {3 * j - 2, 3 * j - 1, 3 * j}

\* C25: every snapshot stands for exactly one call of each predictor on its
\* day, in the order front dynamics, encirclement, capture; a run that
\* returned a frame made 3 x (number of snapshots) predictor calls, a run in
\* progress has made the calls of the stages of the current day on top of
\* that, and no predictor is called for a day after the day declared
\* OCCUPIED.
C25_ThreeInvocationsPerSnapshot ==
    \A r \in Runs :
       /\ \A j \in DOMAIN r.history : ThreeCallsInOrder(r.trace, j)
       /\ r.kind \in {"DataFrame", "None"} =>
             Len(r.trace) = 3 * Len(r.history)
       /\ r.at = "stage_A" => Len(r.trace) = 3 * Len(r.history)
       /\ r.at = "stage_B" => Len(r.trace) = 3 * Len(r.history) + 1
       /\ r.at = "stage_C" => Len(r.trace) = 3 * Len(r.history) + 2
       /\ \A j \in DOMAIN r.history :
             r.history[j].status = "OCCUPIED" =>
                /\ Len(r.trace) = 3 * j
                /\ \A n \in DOMAIN r.trace : r.trace[n].day <= j

C25_Witness ==
    \E r \in Runs :
       /\ r.kind = "DataFrame"
       /\ Len(r.history) = 2
       /\ r.history[2].status = "OCCUPIED"
       /\ Len(r.trace) = 6
       /\ <<r.trace[4].role, r.trace[5].role, r.trace[6].role>>
             = <<"A", "B", "C">>
       /\ r.trace[4].input # r.trace[1].input

====
